---- MODULE Spec2Model ----
(***************************************************************************)
(* A model of the video retrieval system: the report importer             *)
(* (scripts/import_data.py) writing to the PostgreSQL store whose schema   *)
(* is created by database/simple_init.py, and the query servers            *)
(* (query_server/app.py, query_server/appV.py) reading from it.            *)
(*                                                                         *)
(* Identifiers.  Video folders are digit-named directories; a video        *)
(* identifier is modelled by the natural number its name denotes, so that  *)
(* the VARCHAR order of equally long digit strings is the order of the     *)
(* numbers.  A moment identifier is a pair: <<f, n>> stands for the        *)
(* default "<folder>_frame_<n>", other pairs for identifiers given in the  *)
(* report.  Text (file names, JSON documents, search terms) is a sequence  *)
(* of one-character strings.  Timestamps are naturals.                     *)
(***************************************************************************)
EXTENDS Integers, Sequences, FiniteSets, TLC

\* ------------------------------------------------------------------ bounds
\* Number of video folders the dataset directory holds (folders 1..MaxFolder).
MaxFolder == 2

\* ------------------------------------------------------------------- text
Procs == {"p1", "p2"}

Folders == 1 .. MaxFolder

NoId == 0

DigitChar == <<"1", "2", "3", "4", "5", "6", "7", "8", "9">>

RECURSIVE Flatten(_)
Flatten(ss) == IF ss = <<>> THEN <<>> ELSE Head(ss) \o Flatten(Tail(ss))

\* str.lower() / the case folding of ILIKE, on the letters the model uses.
LowerChar(c) ==
    CASE c = "A" -> "a"
      [] c = "B" -> "b"
      [] c = "C" -> "c"
      [] c = "D" -> "d"
      [] OTHER -> c

Lower(s) == [i \in 1 .. Len(s) |-> LowerChar(s[i])]

\* json.dumps of one string: quoted, with '"' and '\' escaped.
JsonEscapeChar(c) ==
    CASE c = "\"" -> <<"\\", "\"">>
      [] c = "\\" -> <<"\\", "\\">>
      [] OTHER -> <<c>>

JsonString(w) ==
    <<"\"">> \o Flatten([i \in 1 .. Len(w) |-> JsonEscapeChar(w[i])]) \o <<"\"">>

\* json.dumps of a list of strings: '["a", "b"]', items joined by ', '.
JsonDumps(ws) ==
    <<"[">>
    \o Flatten([i \in 1 .. Len(ws) |->
                  IF i = 1 THEN JsonString(ws[i])
                  ELSE <<",", " ">> \o JsonString(ws[i])])
    \o <<"]">>

\* PostgreSQL LIKE on case-folded text: '%' matches any run of characters,
\* '_' any one character, every other character itself.
RECURSIVE LikeFrom(_, _, _, _)
LikeFrom(pat, i, str, j) ==
    IF i > Len(pat) THEN j > Len(str)
    ELSE IF pat[i] = "%"
         THEN \E k \in j .. Len(str) + 1 : LikeFrom(pat, i + 1, str, k)
    ELSE /\ j <= Len(str)
         /\ (pat[i] = "_" \/ pat[i] = str[j])
         /\ LikeFrom(pat, i + 1, str, j + 1)

\* text ILIKE pattern
ILike(text, pattern) == LikeFrom(Lower(pattern), 1, Lower(text), 1)

\* ---------------------------------------------------------------- reports
\* The analysis reports a folder's video_analysis_report.json may hold.  A
\* field the report omits is NoId (video_id), <<>> (original_filename,
\* moment_id, the text fields and lists of Unreported) or NoNumber.
W_cat == <<"c", "a", "t">>
W_Cat == <<"C", "a", "t">>
W_dog == <<"d", "o", "g">>
W_car == <<"c", "a", "r">>
W_Dog == <<"D", "o", "g">>

NoNumber == -1

\* What a report says of the video beside its name and duration: nothing.
Unreported ==
    [compressed_filename |-> <<>>, fps |-> NoNumber,
     compressed_file_size_bytes |-> NoNumber, processing_date_utc |-> <<>>,
     scene_change_timestamps |-> <<>>, keyframes_analyzed_count |-> NoNumber,
     analysis_status |-> <<>>, error_message |-> <<>>]

\* "n/a"
BadDate == <<"n", "/", "a">>

\* "2024-05-01T10:00:00Z"
GoodDate ==
    <<"2", "0", "2", "4", "-", "0", "5", "-", "0", "1", "T",
      "1", "0", ":", "0", "0", ":", "0", "0", "Z">>

W_failed == <<"f", "a", "i", "l", "e", "d">>

SampleReports ==
    << [video_id |-> NoId, original_filename |-> <<>>, duration_seconds |-> 10,
        processing_date_utc |-> BadDate,
        analyzed_keyframes |->
          << [moment_id |-> <<>>, timestamp_seconds |-> 1,
              extracted_search_words |-> <<W_cat>>,
              detected_object_names |-> <<W_car>>],
             [moment_id |-> <<>>, timestamp_seconds |-> 2,
              extracted_search_words |-> <<W_Cat, W_dog>>,
              detected_object_names |-> <<>>] >>] @@ Unreported,
       [video_id |-> NoId, original_filename |-> W_dog \o <<".", "m", "p", "4">>,
        duration_seconds |-> 20,
        compressed_filename |-> <<"c", ".", "m", "p", "4">>, fps |-> 30,
        compressed_file_size_bytes |-> 5, processing_date_utc |-> GoodDate,
        scene_change_timestamps |-> <<1, 5>>, keyframes_analyzed_count |-> 1,
        analysis_status |-> W_failed, error_message |-> W_dog,
        analyzed_keyframes |->
          << [moment_id |-> <<9, 1>>, timestamp_seconds |-> 2,
              extracted_search_words |-> <<>>,
              detected_object_names |-> <<W_Dog>>] >>] @@ Unreported,
       [video_id |-> 2, original_filename |-> <<>>, duration_seconds |-> 30,
        analyzed_keyframes |->
          << [moment_id |-> <<9, 2>>, timestamp_seconds |-> 3,
              extracted_search_words |-> <<W_dog>>,
              detected_object_names |-> <<W_car>>] >>] @@ Unreported >>

\* Keyframes of the bulk report: more than any search should return.
BigCount == 201

\* A long video: one keyframe per second, nothing recognised in any of them.
BulkReport ==
    [video_id |-> NoId, original_filename |-> <<>>, duration_seconds |-> BigCount,
     analyzed_keyframes |->
       [n \in 1 .. BigCount |->
          [moment_id |-> <<>>, timestamp_seconds |-> n,
           extracted_search_words |-> <<>>,
           detected_object_names |-> <<>>]]] @@ Unreported

Reports == SampleReports \o <<BulkReport>>

ReportIds == 1 .. Len(SampleReports)

BulkId == Len(Reports)

\* ------------------------------------------------------------------ state
VARIABLES
    videos,     \* committed rows of table videos
    moments,    \* committed rows of table video_moments
    tx,         \* tx[p]: the uncommitted writes of p's open transaction
    pc,         \* pc[p]: where run p of main() stands
    idx,        \* idx[p]: position of p's loop in the sorted folder list
    rep,        \* rep[p]: the report p loaded for its current folder (0: none)
    kf,         \* kf[p]: moments_imported, the keyframes inserted so far
    snap,       \* snap[p]: the rows the running DELETE of p saw at its start
    cnt,        \* cnt[p]: successful_imports, failed_imports, total_moments
    out,        \* out[p]: what import_single_video returned, per folder
    lastCommit, \* the import that committed most recently
    again,      \* again[p]: p re-imports what was committed last, nothing since
    conc,       \* conc[p]: an import of p's folder committed while p's was open
    resp,       \* the response to the most recent request to the query server
    conn,       \* conn[s]: what the current or last call of s did with its
                \* connection: connects, commits, rollbacks, closes
    smp         \* where the run of import_sample_data stands

vars == <<videos, moments, tx, pc, idx, rep, kf, snap, cnt, out,
          lastCommit, again, conc, resp, conn, smp>>

\* The sessions that write to the store in transactions of several
\* statements: the runs of import_data.py and the run of init_db.py.
Sessions == Procs \cup {"sample"}

\* No connection asked for yet.
NoConn == [opens |-> 0, commits |-> 0, rollbacks |-> 0, closes |-> 0]

\* conn = get_db_connection() returned a connection.
Connected == [NoConn EXCEPT !.opens = 1]

store == <<videos, moments>>

\* The folder list of main(): every digit-named folder, sorted.
video_folders == [i \in 1 .. MaxFolder |-> i]

\* video_id = video_folder.name of the import p is running.
Folder(p) == video_folders[idx[p]]

Report(p) == Reports[rep[p]]

EmptyTx == [vrow |-> {}, dels |-> {}, ins |-> {}]

\* ---------------------------------------------------------------- the store
MomentIds(rows) == {m.moment_id : m \in rows}

\* ON CONFLICT (video_id) DO UPDATE SET ...: every column of the SET list
\* takes the value of row w; created_at is not in the list and stays as it
\* is in the row of vs.  Without a conflict w is inserted as it is.
Upserted(vs, w) ==
    IF \E v \in vs : v.video_id = w.video_id
    THEN [w EXCEPT !.created_at =
                     (CHOOSE v \in vs : v.video_id = w.video_id).created_at]
    ELSE w

\* (as if the conflicting row were deleted and w inserted in its place)
ApplyVideosReplacingRow(vs, t) ==
    {v \in vs : \A w \in t.vrow : w.video_id # v.video_id} \cup t.vrow

\* The tables as a transaction's commit leaves them.
ApplyVideos(vs, t) ==
    {v \in vs : \A w \in t.vrow : w.video_id # v.video_id}
      \cup {Upserted(vs, w) : w \in t.vrow}

\* (as if the DELETE ran after the inserts)
ApplyMomentsDeleteLast(ms, t) ==
    {m \in ms \cup t.ins : m.moment_id \notin t.dels}

ApplyMoments(ms, t) ==
    {m \in ms : m.moment_id \notin t.dels} \cup t.ins

\* conn.autocommit = False: statements take effect at conn.commit().
AutocommitOn == TRUE

Autocommit == FALSE

\* What a statement of p that leaves p's transaction as t does to the state.
Statement(p, t) ==
    IF Autocommit
    THEN /\ videos' = ApplyVideos(videos, t)
         /\ moments' = ApplyMoments(moments, t)
         /\ tx' = [tx EXCEPT ![p] = EmptyTx]
    ELSE /\ UNCHANGED store
         /\ tx' = [tx EXCEPT ![p] = t]

\* The first parameter of video_sql: the report's video_id, else the folder.
UpsertKey(p) ==
    IF Report(p).video_id # NoId THEN Report(p).video_id ELSE Folder(p)

FolderName(f) == <<DigitChar[f]>>

Numerals == <<"0", "1", "2", "3", "4", "5", "6", "7", "8", "9">>

IsDigit(c) == \E i \in 1 .. Len(Numerals) : Numerals[i] = c

DigitValue(c) == (CHOOSE i \in 1 .. Len(Numerals) : Numerals[i] = c) - 1

\* The number written with the n digits of s from position i.
RECURSIVE Number(_, _, _)
Number(s, i, n) ==
    IF n = 0 THEN 0 ELSE 10 * Number(s, i, n - 1) + DigitValue(s[i + n - 1])

\* if date_str.endswith('Z'): date_str = date_str.replace('Z', '+00:00')
ReplaceZ(s) ==
    IF s # <<>> /\ s[Len(s)] = "Z"
    THEN Flatten([i \in 1 .. Len(s) |->
                    IF s[i] = "Z" THEN <<"+", "0", "0", ":", "0", "0">>
                    ELSE <<s[i]>>])
    ELSE s

\* The shape YYYY-MM-DDTHH:MM:SS, with +00:00 after it or nothing.
IsoShape(s) ==
    /\ Len(s) \in {19, 25}
    /\ \A i \in 1 .. 19 :
         CASE i \in {5, 8} -> s[i] = "-"
           [] i = 11 -> s[i] = "T"
           [] i \in {14, 17} -> s[i] = ":"
           [] OTHER -> IsDigit(s[i])
    /\ Len(s) = 25 => SubSeq(s, 20, 25) = <<"+", "0", "0", ":", "0", "0">>

Null == <<>>

\* datetime.fromisoformat on the strings the reports hold: the fields of the
\* datetime, or ValueError (Null here) for a string of another shape or with
\* a field out of range.
FromIsoFormat(s) ==
    IF ~IsoShape(s) THEN Null
    ELSE LET d == <<Number(s, 1, 4), Number(s, 6, 2), Number(s, 9, 2),
                    Number(s, 12, 2), Number(s, 15, 2), Number(s, 18, 2)>>
         IN  IF /\ d[1] >= 1 /\ d[2] \in 1 .. 12 /\ d[3] \in 1 .. 31
                /\ d[4] <= 23 /\ d[5] <= 59 /\ d[6] <= 59
             THEN d
             ELSE Null

\* (as if the string were stored when it cannot be parsed)
ProcessingDateUnparsed(date_str) ==
    IF FromIsoFormat(ReplaceZ(date_str)) = Null THEN <<0>>
    ELSE FromIsoFormat(ReplaceZ(date_str))

\* processing_date: None without the key, and None when the parse raises
\* (the except clause logs a warning and goes on).
ProcessingDate(date_str) ==
    IF date_str = <<>> THEN Null ELSE FromIsoFormat(ReplaceZ(date_str))

\* json.dumps of a list of numbers: '[1, 5]'.
JsonNumbers(ns) ==
    <<"[">>
    \o Flatten([i \in 1 .. Len(ns) |->
                  IF i = 1 THEN <<Numerals[ns[i] + 1]>>
                  ELSE <<",", " ", Numerals[ns[i] + 1]>>])
    \o <<"]">>

\* dict.get(key, default)
Get(value, absent, default) == IF value # absent THEN value ELSE default

CompressedForWeb ==
    <<"c", "o", "m", "p", "r", "e", "s", "s", "e", "d", "_", "f", "o", "r",
      "_", "w", "e", "b", ".", "m", "p", "4">>

W_completed == <<"c", "o", "m", "p", "l", "e", "t", "e", "d">>

\* The row video_sql writes (INSERT ... ON CONFLICT (video_id) DO UPDATE);
\* created_at is DEFAULT CURRENT_TIMESTAMP, the time of p's transaction,
\* which stands here as the run and the place in its loop.
VideoRow(p) ==
    [video_id |-> UpsertKey(p),
     original_filename |->
        IF Report(p).original_filename # <<>>
        THEN Report(p).original_filename
        ELSE FolderName(Folder(p)) \o <<".", "m", "p", "4">>,
     compressed_filename |->
        Get(Report(p).compressed_filename, <<>>, CompressedForWeb),
     duration_seconds |-> Report(p).duration_seconds,
     fps |-> Get(Report(p).fps, NoNumber, 25),
     compressed_file_size_bytes |->
        Get(Report(p).compressed_file_size_bytes, NoNumber, 0),
     processing_date_utc |-> ProcessingDate(Report(p).processing_date_utc),
     scene_change_timestamps |->
        JsonNumbers(Report(p).scene_change_timestamps),
     keyframes_analyzed_count |->
        Get(Report(p).keyframes_analyzed_count, NoNumber, 0),
     analysis_status |-> Get(Report(p).analysis_status, <<>>, W_completed),
     error_message |-> Report(p).error_message,
     created_at |-> <<p, idx[p]>>]

\* The row moment_sql writes for keyframe number n (from 0) of p's report.
MomentRowOf(f, k, n) ==
    [moment_id |-> IF k.moment_id # <<>> THEN k.moment_id ELSE <<f, n>>,
     video_id |-> f,
     timestamp_seconds |-> k.timestamp_seconds,
     detected_object_names |-> JsonDumps(k.detected_object_names),
     extracted_search_words |-> JsonDumps(k.extracted_search_words)]

MomentRow(p, n) ==
    MomentRowOf(Folder(p), Report(p).analyzed_keyframes[n + 1], n)

\* Another open transaction holds the lock of video row k.
VideoLocked(p, k) ==
    \E q \in Sessions \ {p} : \E w \in tx[q].vrow : w.video_id = k

\* Another open transaction deleted or inserted a row with moment_id id.
MomentLocked(p, id) ==
    \E q \in Sessions \ {p} : id \in tx[q].dels \/ id \in MomentIds(tx[q].ins)

\* PRIMARY KEY (moment_id): a row with this identifier is visible to p.
DuplicateMoment(p, id) ==
    \/ id \in MomentIds(tx[p].ins)
    \/ id \in MomentIds(moments) /\ id \notin tx[p].dels

\* PRIMARY KEY (video_id): a row with this identifier is visible to p.
DuplicateVideo(p, id) ==
    \E v \in videos \cup tx[p].vrow : v.video_id = id

\* (as if the table had no foreign key)
VideoVisibleUnchecked(p, f) == TRUE

\* FOREIGN KEY (video_id) REFERENCES videos: the owning video is visible to p.
VideoVisible(p, f) ==
    \E v \in videos \cup tx[p].vrow : v.video_id = f

\* --------------------------------------------------------------- importer
Keyframes(p) == Report(p).analyzed_keyframes

\* The statements of an open transaction, and conn.commit().
StmtPcs == {"upsert", "delete", "deleting", "insert"}

TxPcs == StmtPcs \cup {"commit"}

\* Rows a committed DELETE removed are skipped by a DELETE still running.
PruneSnap(p, d) == [q \in Procs |-> IF q = p THEN snap[q] ELSE snap[q] \ d]

\* f"Imported {moments_imported} moments", and int(message.split()[1]).
SuccessMessage(n) == <<"Imported", n, "moments">>

MomentCount(message) == message[2]

\* main() after import_single_video returned (success, message): the tally,
\* then the next folder.  A failure is counted and the loop goes on.
NextPc(p) == IF idx[p] + 1 > Len(video_folders) THEN "done" ELSE "loop"

LoopBreaks(p) == "done"

AfterFailure(p) == NextPc(p)

Returned(p, success, message) ==
    /\ cnt' = [cnt EXCEPT ![p] =
                 IF success
                 THEN [successful_imports |-> @.successful_imports + 1,
                       failed_imports |-> @.failed_imports,
                       total_moments |-> @.total_moments + MomentCount(message)]
                 ELSE [@ EXCEPT !.failed_imports = @ + 1]]
    /\ out' = [out EXCEPT ![p] =
                 Append(@, [ok |-> success,
                            keyframes |-> IF rep[p] = 0 THEN 0
                                          ELSE Len(Keyframes(p)),
                            partial |-> kf[p] >= 1])]
    /\ pc' = [pc EXCEPT ![p] = IF success THEN NextPc(p) ELSE AfterFailure(p)]
    /\ idx' = [idx EXCEPT ![p] = @ + 1]
    /\ rep' = [rep EXCEPT ![p] = 0]
    /\ kf' = [kf EXCEPT ![p] = 0]

\* (as if the connection were closed after the commit only)
RolledBackAndLeftOpen(p) ==
    /\ tx' = [tx EXCEPT ![p] = EmptyTx]
    /\ snap' = [snap EXCEPT ![p] = {}]
    /\ again' = [again EXCEPT ![p] = FALSE]
    /\ conn' = [conn EXCEPT ![p] = [@ EXCEPT !.rollbacks = @ + 1]]
    /\ UNCHANGED <<videos, moments, lastCommit, conc, resp, smp>>
    /\ Returned(p, FALSE, <<"error">>)

\* except Exception: conn.rollback(); raise; finally: cursor.close(),
\* conn.close() -> return False, str(e)
RolledBack(p) ==
    /\ tx' = [tx EXCEPT ![p] = EmptyTx]
    /\ snap' = [snap EXCEPT ![p] = {}]
    /\ again' = [again EXCEPT ![p] = FALSE]
    /\ conn' = [conn EXCEPT ![p] = [@ EXCEPT !.rollbacks = @ + 1,
                                              !.closes = @ + 1]]
    /\ UNCHANGED <<videos, moments, lastCommit, conc, resp, smp>>
    /\ Returned(p, FALSE, <<"error">>)

\* json.load of the report and get_db_connection() succeed.
BeginImport(p, batch) ==
    /\ pc[p] = "loop"
    /\ \E r \in batch[Folder(p)] :
         /\ rep' = [rep EXCEPT ![p] = r]
         /\ again' = [again EXCEPT ![p] =
                        lastCommit = [folder |-> Folder(p), rep |-> r]]
    /\ conc' = [conc EXCEPT ![p] = FALSE]
    /\ pc' = [pc EXCEPT ![p] = "upsert"]
    /\ conn' = [conn EXCEPT ![p] = Connected]
    /\ UNCHANGED <<videos, moments, tx, idx, kf, snap, cnt, out, lastCommit,
                   resp, smp>>

\* The report cannot be read or decoded, or no connection: return False.
LoadFailed(p) ==
    /\ pc[p] = "loop"
    /\ conn' = [conn EXCEPT ![p] = NoConn]
    /\ UNCHANGED <<videos, moments, tx, snap, lastCommit, again, conc, resp,
                   smp>>
    /\ Returned(p, FALSE, <<"Database connection failed">>)

\* cursor.execute(video_sql, ...)
UpsertVideo(p) ==
    /\ pc[p] = "upsert"
    /\ ~VideoLocked(p, UpsertKey(p))
    /\ Statement(p, [tx[p] EXCEPT !.vrow = {VideoRow(p)}])
    /\ pc' = [pc EXCEPT ![p] = "delete"]
    /\ UNCHANGED <<idx, rep, kf, snap, cnt, out, lastCommit, again, conc, resp,
                   conn, smp>>

\* DELETE FROM video_moments WHERE video_id = %s, with the folder name: the
\* statement takes its snapshot ...
DeleteVideoId(p) == Folder(p)

DeleteBegin(p) ==
    /\ pc[p] = "delete"
    /\ snap' = [snap EXCEPT ![p] =
                  {m.moment_id : m \in {x \in moments :
                                          x.video_id = DeleteVideoId(p)}}]
    /\ pc' = [pc EXCEPT ![p] = "deleting"]
    /\ UNCHANGED <<videos, moments, tx, idx, rep, kf, cnt, out, lastCommit,
                   again, conc, resp, conn, smp>>

\* ... and deletes the rows of the snapshot, once no other open transaction
\* holds one of them.
DeleteEnd(p) ==
    /\ pc[p] = "deleting"
    /\ \A q \in Sessions \ {p} : tx[q].dels \cap snap[p] = {}
    /\ LET t == [tx[p] EXCEPT !.dels = snap[p]]
       IN /\ Statement(p, t)
          /\ snap' = [(IF Autocommit THEN PruneSnap(p, t.dels) ELSE snap)
                        EXCEPT ![p] = {}]
    /\ pc' = [pc EXCEPT ![p] =
                IF Len(Keyframes(p)) = 0 THEN "commit" ELSE "insert"]
    /\ UNCHANGED <<idx, rep, kf, cnt, out, lastCommit, again, conc, resp,
                   conn, smp>>

\* cursor.execute(moment_sql, ...) for the next keyframe; moments_imported += 1
InsertMoment(p) ==
    /\ pc[p] = "insert"
    /\ LET row == MomentRow(p, kf[p])
       IN /\ ~MomentLocked(p, row.moment_id)
          /\ ~DuplicateMoment(p, row.moment_id)
          /\ VideoVisible(p, row.video_id)
          /\ Statement(p, [tx[p] EXCEPT !.ins = @ \cup {row}])
    /\ kf' = [kf EXCEPT ![p] = @ + 1]
    /\ pc' = [pc EXCEPT ![p] =
                IF kf[p] + 1 = Len(Keyframes(p)) THEN "commit" ELSE "insert"]
    /\ UNCHANGED <<idx, rep, snap, cnt, out, lastCommit, again, conc, resp,
                   conn, smp>>

\* The insert violates the primary key or the foreign key: the statement
\* raises, the transaction is rolled back.
InsertViolation(p) ==
    /\ pc[p] = "insert"
    /\ LET row == MomentRow(p, kf[p])
       IN \/ row.moment_id \in MomentIds(tx[p].ins)
          \/ /\ ~MomentLocked(p, row.moment_id)
             /\ \/ DuplicateMoment(p, row.moment_id)
                \/ ~VideoVisible(p, row.video_id)
    /\ RolledBack(p)

\* A statement, or conn.commit(), raises for a reason outside the data
\* (connection lost, deadlock victim, timeout).
StatementError(p) ==
    /\ pc[p] \in TxPcs
    /\ RolledBack(p)

\* conn.commit(); return True, f"Imported {moments_imported} moments"
CommitImport(p) ==
    /\ pc[p] = "commit"
    /\ videos' = ApplyVideos(videos, tx[p])
    /\ moments' = ApplyMoments(moments, tx[p])
    /\ tx' = [tx EXCEPT ![p] = EmptyTx]
    /\ snap' = [PruneSnap(p, tx[p].dels) EXCEPT ![p] = {}]
    /\ lastCommit' = [folder |-> Folder(p), rep |-> rep[p]]
    /\ Returned(p, TRUE, SuccessMessage(kf[p]))
    /\ again' = [q \in Procs |-> IF q = p THEN again[p] ELSE FALSE]
    /\ conc' = [q \in Procs |->
                  IF q # p /\ pc[q] \in TxPcs /\ Folder(q) = Folder(p)
                  THEN TRUE
                  ELSE conc[q]]
    /\ conn' = [conn EXCEPT ![p] = [@ EXCEPT !.commits = @ + 1,
                                              !.closes = @ + 1]]
    /\ UNCHANGED <<resp, smp>>

\* One step of run p of the importer; folder f holds a report of batch[f].
ImportStep(p, batch) ==
    \/ BeginImport(p, batch)
    \/ LoadFailed(p)
    \/ UpsertVideo(p)
    \/ DeleteBegin(p)
    \/ DeleteEnd(p)
    \/ InsertMoment(p)
    \/ InsertViolation(p)
    \/ StatementError(p)
    \/ CommitImport(p)

NoResponse == [type |-> "none", status |-> 0, results |-> <<>>]

\* import_sample_data is not running: before its run, and after it.
SampleIdle ==
    [pc |-> "idle", dirs |-> <<>>, i |-> 0, k |-> 0, aborted |-> FALSE,
     runs |-> 0]

Init ==
    /\ videos = {}
    /\ moments = {}
    /\ tx = [p \in Sessions |-> EmptyTx]
    /\ pc = [p \in Procs |-> "loop"]
    /\ idx = [p \in Procs |-> 1]
    /\ rep = [p \in Procs |-> 0]
    /\ kf = [p \in Procs |-> 0]
    /\ snap = [p \in Procs |-> {}]
    /\ cnt = [p \in Procs |-> [successful_imports |-> 0, failed_imports |-> 0,
                               total_moments |-> 0]]
    /\ out = [p \in Procs |-> <<>>]
    /\ lastCommit = [folder |-> 0, rep |-> 0]
    /\ again = [p \in Procs |-> FALSE]
    /\ conc = [p \in Procs |-> FALSE]
    /\ resp = NoResponse
    /\ conn = [s \in Sessions \cup {"server"} |-> NoConn]
    /\ smp = SampleIdle

\* Two runs of the importer against one store.
\* Any sample report in any folder.
SampleBatch == [f \in Folders |-> ReportIds]

Next == \E p \in Procs : ImportStep(p, SampleBatch)

Spec == Init /\ [][Next]_vars

\* ------------------------------------------------------------ query server
\* data.get('limit', 50)
DefaultLimit == 50

Min(a, b) == IF a <= b THEN a ELSE b

Abs(x) == IF x < 0 THEN 0 - x ELSE x

Range(s) == {s[i] : i \in 1 .. Len(s)}

\* FROM video_moments m JOIN videos v ON m.video_id = v.video_id
Joined(vs, ms) ==
    {[moment_id |-> m.moment_id, video_id |-> m.video_id,
      timestamp_seconds |-> m.timestamp_seconds,
      detected_object_names |-> m.detected_object_names,
      extracted_search_words |-> m.extracted_search_words,
      original_filename |-> v.original_filename,
      duration_seconds |-> v.duration_seconds] :
        <<m, v>> \in {x \in ms \X vs : x[1].video_id = x[2].video_id}}

\* ORDER BY m.video_id, m.timestamp_seconds
VideoTimeKey(m) == <<m.video_id, m.timestamp_seconds>>

KeyLeqByTimeOnly(a, b) == a[2] <= b[2]

KeyLeq(a, b) == a[1] < b[1] \/ (a[1] = b[1] /\ a[2] <= b[2])

RECURSIVE PermSeqs(_)
PermSeqs(G) ==
    IF G = {} THEN {<<>>}
    ELSE UNION {{<<m>> \o r : r \in PermSeqs(G \ {m})} : m \in G}

\* Where row x stands in tie-break t, a sequence of the rows that tie.
Place(t, x) == CHOOSE i \in 1 .. Len(t) : t[i] = x

\* Neither key sorts before the other.
Ties(a, b) == KeyLeq(a, b) /\ KeyLeq(b, a)

\* The keyed rows P in ascending key order, rows that tie as in t.
SortedBy(P, t) ==
    LET Before(y, x) ==
            IF Ties(y.key, x.key)
            THEN y # x /\ Place(t, y) < Place(t, x)
            ELSE KeyLeq(y.key, x.key)
        ranked == {<<Cardinality({y \in P : Before(y, x)}), x.row>> : x \in P}
    IN SubSeq([i \in 1 .. Cardinality(P) |->
                 (CHOOSE r \in ranked : r[1] = i - 1)[2]],
              1, Cardinality(P))

\* The orders in which ORDER BY may return the keyed rows P (records with a
\* key and a row): ascending keys, rows that tie in any order.
Orderings(P) ==
    LET tied == {x \in P : \E y \in P : y # x /\ Ties(y.key, x.key)}
    IN {SortedBy(P, t) : t \in PermSeqs(tied)}

\* LIMIT n
Limit(rows, n) == SubSeq(rows, 1, Min(n, Len(rows)))

\* The row lists "SELECT ... WHERE <rows> ORDER BY m.video_id,
\* m.timestamp_seconds LIMIT n" may return.
Selected(rows, n) ==
    {Limit(o, n) :
       o \in Orderings({[key |-> VideoTimeKey(m), row |-> m] : m \in rows})}

\* f'%{keyword.lower()}%'
Pattern(term) == <<"%">> \o Lower(term) \o <<"%">>

\* operator = " AND " if match_all else " OR "
JoinSwapped(match_all, conds) ==
    IF match_all THEN \E i \in DOMAIN conds : conds[i]
    ELSE \A i \in DOMAIN conds : conds[i]

Join(match_all, conds) ==
    IF match_all THEN \A i \in DOMAIN conds : conds[i]
    ELSE \E i \in DOMAIN conds : conds[i]

\* WHERE m.<column> ILIKE %s {AND|OR} m.<column> ILIKE %s ...
TermsMatch(text, terms, match_all) ==
    Join(match_all, [i \in 1 .. Len(terms) |-> ILike(text, Pattern(terms[i]))])

Column(m, type) ==
    IF type = "keyword_search" THEN m.extracted_search_words
    ELSE m.detected_object_names

TermRows(vs, ms, type, terms, match_all) ==
    {m \in Joined(vs, ms) : TermsMatch(Column(m, type), terms, match_all)}

\* limit = data.get('limit', 50)
EffLimit(req) == IF req.has_limit THEN req.limit ELSE DefaultLimit

\* The result lists a keyword or object search may return.
TermResults(vs, ms, type, req) ==
    Selected(TermRows(vs, ms, type, req.terms, req.match_all), EffLimit(req))

\* The handlers run SELECT statements only and never call conn.commit().
HandlerPurgesStore == videos' = videos /\ moments' = {}

HandlerEffect == videos' = videos /\ moments' = moments

\* A request is in hand between the two SELECT statements of
\* get_video_details; the model serves one request at a time.
Pending == resp.status = 0 /\ resp.type # "none"

\* The handler asked for a connection and got one: every path but the
\* validation errors and 'Database connection failed'.
Opened(r) == IF "opened" \in DOMAIN r THEN r.opened ELSE TRUE

\* (as if conn.close() stood at the end of the try block, not in finally)
ClosesOnSuccess(r) == r.status = 200

\* finally: conn.close() runs on every return of the handler; a handler
\* that has not returned (status 0) holds its connection.
Closes(r) == r.status # 0

\* What the handler that answers r did with its connection.
ServerConn(r) ==
    [NoConn EXCEPT !.opens = IF Opened(r) THEN 1 ELSE 0,
                   !.closes = IF Opened(r) /\ Closes(r) THEN 1 ELSE 0]

Answer(r) ==
    /\ resp' = r
    /\ conn' = [conn EXCEPT !["server"] = ServerConn(r)]
    /\ UNCHANGED <<tx, pc, idx, rep, kf, snap, cnt, out, lastCommit, again,
                   conc, smp>>

Respond(r) == Answer(r) /\ HandlerEffect

\* 'count': len(formatted_results)
CountFromOne(results) == Len(results) + 1

Count(results) == Len(results)

Response(type, status, results, req) ==
    [type |-> type, status |-> status, results |-> results,
     count |-> Count(results), req |-> req]

\* jsonify({'error': ...}), status, with a list of results beside the error.
FailureWithResults(type, status, error, opened) ==
    [type |-> type, status |-> status, error |-> error, opened |-> opened,
     results |-> <<>>]

\* jsonify({'error': ...}), status.  opened: get_db_connection() returned a
\* connection while the request was handled.
Failure(type, status, error, opened) ==
    [type |-> type, status |-> status, error |-> error, opened |-> opened]

\* return jsonify({'error': 'Database connection failed'}), 500
NoConnection(type) == Failure(type, 500, "Database connection failed", FALSE)

\* A statement raises psycopg2.Error: jsonify({'error': str(e)}), 500
StoreError(type) == Failure(type, 500, "psycopg2.Error", TRUE)

\* A JSON value that is not a string, as a search term: a number.
NumberTerm == <<"7 (number)">>

IsString(term) == term # NumberTerm

AllStrings(terms) == \A i \in 1 .. Len(terms) : IsString(terms[i])

\* search_by_keywords (type "keyword_search") and search_by_objects (type
\* "object_search"): 400 without terms; 500 without a connection or when
\* the statement raises (as it does for a negative LIMIT); else the selected
\* rows.  The .lower() of a term that is not a string raises AttributeError:
\* in search_by_objects before the connection is asked for and outside any
\* try, in search_by_keywords inside the try, with the connection open.
TermSearch(type, reqs) ==
    /\ ~Pending
    /\ \E req \in reqs :
        IF req.terms = <<>>
        THEN Respond(Failure(type, 400, "terms are required", FALSE))
        ELSE IF type = "object_search" /\ ~AllStrings(req.terms)
        THEN Respond(Failure(type, 500, "Internal server error", FALSE))
        ELSE \/ Respond(NoConnection(type))
             \/ Respond(StoreError(type))
             \/ IF ~AllStrings(req.terms)
                THEN Respond(Failure(type, 500, "AttributeError", TRUE))
                ELSE /\ EffLimit(req) >= 0
                     /\ \E rows \in TermResults(videos, moments, type, req) :
                          Respond(Response(type, 200, rows, req))

SearchByKeywords(reqs) == TermSearch("keyword_search", reqs)

SearchByObjects(reqs) == TermSearch("object_search", reqs)

\* search_by_text: WHERE m.extracted_search_words ILIKE %s OR
\* v.original_filename ILIKE %s with f'%{query}%'; the handler of appV.py
\* (with_objects) also has OR m.detected_object_names ILIKE %s.
TextRows(vs, ms, query, with_objects) ==
    {m \in Joined(vs, ms) :
       \/ ILike(m.extracted_search_words, <<"%">> \o query \o <<"%">>)
       \/ with_objects
            /\ ILike(m.detected_object_names, <<"%">> \o query \o <<"%">>)
       \/ ILike(m.original_filename, <<"%">> \o query \o <<"%">>)}

TextResults(vs, ms, req, with_objects) ==
    Selected(TextRows(vs, ms, req.query, with_objects), EffLimit(req))

SearchByText(reqs, with_objects) ==
    /\ ~Pending
    /\ \E req \in reqs :
        IF req.query = <<>>
        THEN Respond(Failure("text_search", 400, "Query text is required", FALSE))
        ELSE \/ Respond(NoConnection("text_search"))
             \/ Respond(StoreError("text_search"))
             \/ /\ EffLimit(req) >= 0
                /\ \E rows \in TextResults(videos, moments, req, with_objects) :
                     Respond(Response("text_search", 200, rows, req))

\* search_by_time_range: m.timestamp_seconds >= start_time, and
\* m.timestamp_seconds <= end_time when end_time is given, and
\* m.video_id = video_id when video_id is given.
StartTime(req) == IF req.has_start THEN req.start_time ELSE 0

\* (as if the upper bound were m.timestamp_seconds < end_time)
TemporalRowsBeforeEnd(vs, ms, req) ==
    {m \in Joined(vs, ms) :
       /\ m.timestamp_seconds >= StartTime(req)
       /\ req.has_end => m.timestamp_seconds < req.end_time
       /\ req.video_id # NoId => m.video_id = req.video_id}

TemporalRows(vs, ms, req) ==
    {m \in Joined(vs, ms) :
       /\ m.timestamp_seconds >= StartTime(req)
       /\ req.has_end => m.timestamp_seconds <= req.end_time
       /\ req.video_id # NoId => m.video_id = req.video_id}

TemporalResults(vs, ms, req) ==
    Selected(TemporalRows(vs, ms, req), EffLimit(req))

\* "if not data": the body has no field at all.
EmptyBody(req) ==
    ~req.has_start /\ ~req.has_end /\ req.video_id = NoId /\ ~req.has_limit

SearchByTimeRange(reqs) ==
    /\ ~Pending
    /\ \E req \in reqs :
        IF EmptyBody(req)
        THEN Respond(Failure("temporal_search", 400, "Request data required",
                             FALSE))
        ELSE \/ Respond(NoConnection("temporal_search"))
             \/ Respond(StoreError("temporal_search"))
             \/ /\ EffLimit(req) >= 0
                /\ \E rows \in TemporalResults(videos, moments, req) :
                     Respond(Response("temporal_search", 200, rows, req))

\* search_video_segment: video_id and timestamp are required; the rows of the
\* video within tolerance of the timestamp, ORDER BY time_distance LIMIT 10.
SegmentLimit == 10

DefaultTolerance == 5

Tolerance(req) == IF req.has_tolerance THEN req.tolerance ELSE DefaultTolerance

\* WHERE with the condition on m.video_id left out.
SegmentRowsOfAnyVideo(vs, ms, req) ==
    {m \in Joined(vs, ms) :
       Abs(m.timestamp_seconds - req.timestamp) <= Tolerance(req)}

SegmentRows(vs, ms, req) ==
    {m \in Joined(vs, ms) :
       /\ m.video_id = req.video_id
       /\ Abs(m.timestamp_seconds - req.timestamp) <= Tolerance(req)}

SegmentResults(vs, ms, req) ==
    {Limit(o, SegmentLimit) :
       o \in Orderings({[key |-> <<0, Abs(m.timestamp_seconds - req.timestamp)>>,
                         row |-> m] : m \in SegmentRows(vs, ms, req)})}

\* float(data['timestamp']) of a value that is no number raises ValueError,
\* before the connection is asked for and outside any try.
SearchVideoSegment(reqs) ==
    /\ ~Pending
    /\ \E req \in reqs :
        IF req.video_id = NoId \/ ~req.has_timestamp
        THEN Respond(Failure("video_segment_search", 400,
                             "video_id and timestamp are required", FALSE))
        ELSE IF ~req.numeric
        THEN Respond(Failure("video_segment_search", 500,
                             "Internal server error", FALSE))
        ELSE \/ Respond(NoConnection("video_segment_search"))
             \/ Respond(StoreError("video_segment_search"))
             \/ \E rows \in SegmentResults(videos, moments, req) :
                  Respond(Response("video_segment_search", 200, rows, req))

\* get_system_stats: SELECT COUNT(*) of both tables.
GetSystemStats ==
    /\ ~Pending
    /\ \/ Respond(NoConnection("stats"))
       \/ Respond(StoreError("stats"))
       \/ Respond(Response("stats", 200, <<>>,
                           [videos |-> Cardinality(videos),
                            moments |-> Cardinality(moments)]))

\* list_videos: the handler opens a RealDictCursor and reads the count with
\* cursor.fetchone()[0]; a RealDictRow has no key 0, the KeyError is caught
\* and answered with status 500.
ListVideos ==
    /\ ~Pending
    /\ \E page \in 1 .. 2 :
        \/ Respond(NoConnection("list_videos"))
        \/ Respond(StoreError("list_videos"))
        \/ Respond(Failure("list_videos", 500, "KeyError", TRUE))

\* SELECT * FROM video_moments ORDER BY timestamp_seconds, of every video.
DetailRowsOfAll(ms, v) ==
    {o : o \in Orderings({[key |-> <<0, m.timestamp_seconds>>, row |-> m] :
                            m \in ms})}

\* SELECT * FROM video_moments WHERE video_id = %s ORDER BY timestamp_seconds
DetailRows(ms, v) ==
    {o : o \in Orderings({[key |-> <<0, m.timestamp_seconds>>, row |-> m] :
                            m \in {m \in ms : m.video_id = v}})}

\* 'moment_count': len(formatted_moments)
Details(video, rows) ==
    [type |-> "video_details", status |-> 200, video |-> video,
     moments |-> rows, moment_count |-> Count(rows),
     req |-> [video_id |-> video.video_id]]

\* return jsonify({'error': 'Video not found'}), 404, to the request for v.
NotFound(v) ==
    [type |-> "video_details", status |-> 404, error |-> "Video not found",
     opened |-> TRUE, req |-> [video_id |-> v]]

\* get_video_details up to its first SELECT: 404 when the video is not
\* stored, else the video row is in hand.
DetailsBegin(ids) ==
    /\ ~Pending
    /\ \E v \in ids :
        \/ Respond(NoConnection("video_details"))
        \/ Respond(StoreError("video_details"))
        \/ /\ \A w \in videos : w.video_id # v
           /\ Respond(NotFound(v))
        \/ \E w \in videos :
             /\ w.video_id = v
             /\ Respond([type |-> "video_details", status |-> 0, video |-> w])

\* get_video_details from its second SELECT, which reads the moments as they
\* are stored by then.
DetailsEnd ==
    /\ Pending
    /\ \/ Respond(StoreError("video_details"))
       \/ \E rows \in DetailRows(moments, resp.video.video_id) :
            Respond(Details(resp.video, rows))

GetVideoDetails(ids) == DetailsBegin(ids) \/ DetailsEnd

\* ------------------------------------------------------ the server's input
\* Largest limit a request of the model carries.
MaxLimit == 2

NoLimit == [has_limit |-> FALSE, limit |-> 0]

GivenLimit(n) == [has_limit |-> TRUE, limit |-> n]

TermRequest(t, l, a) ==
    [terms |-> t, has_limit |-> l.has_limit, limit |-> l.limit, match_all |-> a]

KeywordRequests ==
    {TermRequest(<<>>, NoLimit, FALSE)}
    \cup {TermRequest(<<W_cat, W_dog>>, l, a) :
            l \in {NoLimit, GivenLimit(1), GivenLimit(MaxLimit)}, a \in BOOLEAN}
    \cup {TermRequest(t, NoLimit, FALSE) :
            t \in {<<W_Cat>>, <<<<"%">>>>, <<<<",">>>>, <<W_cat, NumberTerm>>}}

ObjectRequests ==
    {TermRequest(<<W_car, W_Dog>>, l, a) :
       l \in {NoLimit, GivenLimit(1)}, a \in BOOLEAN}
    \cup {TermRequest(<<NumberTerm>>, NoLimit, FALSE)}

TextRequests ==
    {[query |-> q, has_limit |-> l.has_limit, limit |-> l.limit] :
       q \in {<<>>, W_dog, <<"m", "p", "4">>},
       l \in {NoLimit, GivenLimit(-1)}}
    \cup {[query |-> W_car, has_limit |-> FALSE, limit |-> 0]}

\* A start or an end of NoNumber stands for a body without the field.
TemporalRequest(s, e, v, l) ==
    [has_start |-> s # NoNumber, start_time |-> s,
     has_end |-> e # NoNumber, end_time |-> e,
     video_id |-> v, has_limit |-> l.has_limit, limit |-> l.limit]

\* With and without each bound, an end of 0, a start after the end, and one
\* video with a limit.
TemporalRequests ==
    {TemporalRequest(s, e, NoId, NoLimit) :
       s \in {NoNumber, 2}, e \in {NoNumber, 2}}
    \cup {TemporalRequest(NoNumber, 0, NoId, NoLimit),
          TemporalRequest(2, 1, NoId, NoLimit),
          TemporalRequest(NoNumber, 2, 1, GivenLimit(1))}

\* A timestamp of -1 stands for a body without the field, one of -2 for a
\* value that is no number.  The handler never reads the limit l.
SegmentRequest(v, t, tol, l) ==
    [video_id |-> v, has_timestamp |-> t # -1, numeric |-> t >= 0,
     timestamp |-> t,
     has_tolerance |-> tol # DefaultTolerance, tolerance |-> tol,
     has_limit |-> l.has_limit, limit |-> l.limit]

SegmentRequests ==
    {SegmentRequest(v, t, DefaultTolerance, NoLimit) :
       v \in {NoId, 1}, t \in {-1, 2}}
    \cup {SegmentRequest(1, 2, 0, NoLimit), SegmentRequest(1, -2, 0, NoLimit)}

ServerStep ==
    \/ SearchByText(TextRequests, FALSE)
    \/ SearchByText(TextRequests, TRUE)
    \/ SearchByKeywords(KeywordRequests)
    \/ SearchByObjects(ObjectRequests)
    \/ SearchByTimeRange(TemporalRequests)
    \/ SearchVideoSegment(SegmentRequests)
    \/ GetSystemStats
    \/ ListVideos
    \/ GetVideoDetails(Folders)

\* One run of the importer, and the query server answering requests.
\* The folders hold reports whose video is the folder's.
ServerBatch == [f \in Folders |-> {1, 2}]

ServerNext == ImportStep("p1", ServerBatch) \/ ServerStep

ServerSpec == Init /\ [][ServerNext]_vars

\* A batch of long videos, and searches that ask for everything.
BulkRequests ==
    {TemporalRequest(1, NoNumber, NoId, l) :
       l \in {NoLimit, GivenLimit(BigCount)}}

\* Short videos, and last a folder that may hold the long one.
BulkBatch == [f \in Folders |-> IF f = MaxFolder THEN {2, BulkId} ELSE {2}]

\* Segment searches in the long video: with more moments in reach than the
\* handler returns, with moments at equal distance, and without a field.
BulkSegmentRequests ==
    {SegmentRequest(MaxFolder, 0, SegmentLimit + 1, GivenLimit(BigCount)),
     SegmentRequest(MaxFolder, 0, DefaultTolerance, NoLimit),
     SegmentRequest(MaxFolder, 3, 2, NoLimit),
     SegmentRequest(NoId, 0, DefaultTolerance, NoLimit),
     SegmentRequest(MaxFolder, -1, DefaultTolerance, NoLimit)}

BulkNext ==
    \/ ImportStep("p1", BulkBatch)
    \/ SearchVideoSegment(BulkSegmentRequests)
    \/ SearchByTimeRange(BulkRequests)
    \/ SearchByKeywords({TermRequest(<<<<"[">>>>, GivenLimit(BigCount), TRUE)})

BulkSpec == Init /\ [][BulkNext]_vars

\* ------------------------------------------------------- ingestion claims
\* Process p takes a step of its open transaction other than conn.commit().
StatementStep(p) ==
    pc[p] \in StmtPcs /\ (pc'[p] # pc[p] \/ kf'[p] # kf[p])

\* conn.commit() of process p returns in this step.
CommitStep(p) == pc[p] = "commit" /\ conn'[p].commits = conn[p].commits + 1

\* The rows import p builds from its report's keyframe list.
ReportRows(p) == {MomentRow(p, n) : n \in 0 .. Len(Keyframes(p)) - 1}

OwnedBy(ms, v) == {m \in ms : m.video_id = v}

\* A moment row without its owner.
Content(m) ==
    [moment_id |-> m.moment_id, timestamp_seconds |-> m.timestamp_seconds,
     detected_object_names |-> m.detected_object_names,
     extracted_search_words |-> m.extracted_search_words]

\* C1: ingestion atomicity.  No statement of an import's transaction (video
\* upsert, delete of the old moments, a moment insert) and no rollback after a
\* failed statement changes a committed row: whatever a failed attempt wrote
\* is never stored, and the rows committed before it are what is stored after.
C1_FailedAttemptStoresNothing ==
    [][\A p \in Procs :
         StatementStep(p) => videos' = videos /\ moments' = moments]_vars

\* An import failed after it had inserted a moment, for a folder whose video
\* still has its committed moments.
C1_Witness ==
    \E p \in Procs : \E i \in 1 .. Len(out[p]) :
        /\ ~out[p][i].ok
        /\ out[p][i].partial
        /\ OwnedBy(moments, video_folders[i]) # {}

C3_UpsertedVideoOwnsTheReport ==
    [][\A p \in Procs :
         CommitStep(p) =>
            {Content(m) : m \in OwnedBy(moments', UpsertKey(p))}
              = {Content(m) : m \in ReportRows(p)}]_vars

\* Sum of the keyframe counts of the successful imports in a run's outcomes.
RECURSIVE SumImported(_)
SumImported(o) ==
    IF o = <<>> THEN 0
    ELSE (IF Head(o).ok THEN Head(o).keyframes ELSE 0) + SumImported(Tail(o))

FailedStep(p) == cnt'[p].failed_imports = cnt[p].failed_imports + 1

\* C4: batch independence.  A failed import changes no committed row and the
\* loop goes on to the next folder; when the run is done, successes plus
\* failures is the number of reports and total_moments is the sum of the
\* keyframe counts of the reports imported successfully.
C4_BatchIndependence ==
    /\ [](\A p \in Procs :
            pc[p] = "done" =>
               /\ cnt[p].successful_imports + cnt[p].failed_imports
                    = Len(video_folders)
               /\ Len(out[p]) = Len(video_folders)
               /\ cnt[p].total_moments = SumImported(out[p]))
    /\ [][\A p \in Procs :
            FailedStep(p) =>
               /\ videos' = videos
               /\ moments' = moments
               /\ (idx[p] < Len(video_folders) => pc'[p] = "loop")]_vars

\* A run is done whose first import committed moments that are still stored,
\* and whose second import failed.
C4_Witness ==
    \E p \in Procs :
        /\ pc[p] = "done"
        /\ out[p][1].ok /\ out[p][1].keyframes >= 1
        /\ ~out[p][2].ok
        /\ Cardinality(OwnedBy(moments, video_folders[1])) = out[p][1].keyframes
        /\ cnt[p].total_moments >= 1

\* C5 as claimed: when an import of folder f commits after another import of f
\* committed while it was open, the video's moments are exactly the keyframes
\* of the import that committed last.
C5_LastCommittedWins ==
    [][\A p \in Procs :
         (CommitStep(p) /\ conc[p]) =>
            OwnedBy(moments', Folder(p)) = ReportRows(p)]_vars

\* ---------------------------------------------------------- query claims
\* The searches, and the endpoints that only read.
SearchTypes ==
    {"text_search", "keyword_search", "object_search", "temporal_search"}

ReadTypes ==
    SearchTypes \cup {"video_segment_search", "stats", "list_videos",
                      "video_details"}

\* A handler of the given types answers in this step.
Answers(types) == resp' # resp /\ resp'.type \in types

\* The response in hand is a result list of one of the given types.
Listed(types) == resp.type \in types /\ resp.status = 200

\* C6: queries are read-only.  A step in which a search (text, keyword,
\* object, temporal, video segment) or a read endpoint (stats, list videos,
\* video details) answers, with results or with an error, leaves the stored
\* videos and moments as they were.
C6_QueriesReadOnly ==
    [][Answers(ReadTypes) => videos' = videos /\ moments' = moments]_vars

\* A search returned moments of a store that holds some.
C6_Witness ==
    /\ Listed(SearchTypes)
    /\ resp.results # <<>>
    /\ Range(resp.results) \subseteq Joined(videos, moments)

\* The moments a term search answers with when asked for any of the terms.
AnyRows(r) == TermRows(videos, moments, r.type, r.req.terms, FALSE)

\* The answers to the request of response r with match_all = false.
AnyResults(r) ==
    TermResults(videos, moments, r.type, [r.req EXCEPT !.match_all = FALSE])

\* C7 as stated: for every limit, the moments a keyword or object search
\* returns with match_all = true are among those the same search returns
\* with match_all = false.
C7_SubsetForEveryLimit ==
    [][(Answers({"keyword_search", "object_search"})
        /\ resp'.status = 200 /\ resp'.req.match_all) =>
          \A any \in AnyResults(resp') :
              Range(resp'.results) \subseteq Range(any)]_vars

\* C7 as amended: every moment returned with match_all = true passes the
\* match_all = false filter of the same terms, and is in the match_all = false
\* result whenever the limit does not cut that result short.
C7_SubsetUnlessCut ==
    [][(Answers({"keyword_search", "object_search"})
        /\ resp'.status = 200 /\ resp'.req.match_all) =>
          /\ \A m \in Range(resp'.results) :
                 \E i \in 1 .. Len(resp'.req.terms) :
                     ILike(Column(m, resp'.type), Pattern(resp'.req.terms[i]))
          /\ Cardinality(AnyRows(resp')) <= EffLimit(resp'.req) =>
                 \A any \in AnyResults(resp') :
                     Range(resp'.results) \subseteq Range(any)]_vars

\* A search for all of two terms returned a moment that the search for any of
\* them, cut short by the same limit, does not return.
C7_Witness ==
    /\ Listed({"keyword_search", "object_search"})
    /\ resp.req.match_all
    /\ Len(resp.req.terms) >= 2
    /\ resp.results # <<>>
    /\ Range(resp.results) \subseteq Joined(videos, moments)
    /\ Cardinality(AnyRows(resp)) > EffLimit(resp.req)
    /\ \E any \in AnyResults(resp) : ~(Range(resp.results) \subseteq Range(any))

\* C8: result cap.  A text, keyword, object or temporal search returns at most
\* min(limit, 200) results, the limit being 50 when the request has none.
C8_ResultCap ==
    Listed(SearchTypes) =>
        Len(resp.results)
            <= Min(IF resp.req.has_limit THEN resp.req.limit ELSE 50, 200)

\* C9 as stated: the results of a keyword, object, text or temporal search
\* are in ascending order of timestamp_seconds over the whole list.
C9_AscendingTimestamps ==
    Listed(SearchTypes) =>
        \A i, j \in 1 .. Len(resp.results) :
            i < j => resp.results[i].timestamp_seconds
                        <= resp.results[j].timestamp_seconds

\* C9 as amended: the results are grouped by video in ascending order of
\* video_id, and within one video in ascending order of timestamp_seconds.
C9_AscendingWithinVideo ==
    Listed(SearchTypes) =>
        \A i, j \in 1 .. Len(resp.results) :
            i < j =>
              \/ resp.results[i].video_id < resp.results[j].video_id
              \/ /\ resp.results[i].video_id = resp.results[j].video_id
                 /\ resp.results[i].timestamp_seconds
                       <= resp.results[j].timestamp_seconds

\* A search returned moments of two videos, the first video's later in time
\* than the second video's.
C9_Witness ==
    /\ Listed(SearchTypes)
    /\ \E i, j \in 1 .. Len(resp.results) :
          /\ i < j
          /\ resp.results[i].video_id < resp.results[j].video_id
          /\ resp.results[i].timestamp_seconds
                > resp.results[j].timestamp_seconds

\* The word lists of the reports, and json.loads of a stored column.
WordLists ==
    {r.analyzed_keyframes[n].extracted_search_words :
       <<r, n>> \in {x \in Range(Reports) \X (1 .. BigCount) :
                       x[2] <= Len(x[1].analyzed_keyframes)}}

WordsOf(m) == CHOOSE ws \in WordLists : JsonDumps(ws) = m.extracted_search_words

\* term is a case-insensitive substring of word.
Substring(term, word) ==
    \E i \in 1 .. Len(word) - Len(term) + 1 :
        SubSeq(Lower(word), i, i + Len(term) - 1) = Lower(term)

\* The term is a substring of at least one of the moment's search words.
Passes(m, term) ==
    \E i \in 1 .. Len(WordsOf(m)) : Substring(term, WordsOf(m)[i])

\* The moment passes for every term (match_all) or for at least one.
PassesFilter(m, req) ==
    IF req.match_all
    THEN \A i \in 1 .. Len(req.terms) : Passes(m, req.terms[i])
    ELSE \E i \in 1 .. Len(req.terms) : Passes(m, req.terms[i])

\* C10: keyword filter semantics.  Every moment a keyword search returns
\* passes the filter: each term (match_all) or some term is a case-insensitive
\* substring of one of its search words; and a result the limit did not cut
\* short holds every stored moment that passes.
C10_KeywordFilter ==
    [][(Answers({"keyword_search"}) /\ resp'.status = 200) =>
          /\ \A m \in Range(resp'.results) : PassesFilter(m, resp'.req)
          /\ Len(resp'.results) < EffLimit(resp'.req) =>
                 \A m \in Joined(videos, moments) :
                     PassesFilter(m, resp'.req) => m \in Range(resp'.results)]_vars

\* The object name lists of the reports, and json.loads of a stored column.
ObjectLists ==
    {r.analyzed_keyframes[n].detected_object_names :
       <<r, n>> \in {x \in Range(Reports) \X (1 .. BigCount) :
                       x[2] <= Len(x[1].analyzed_keyframes)}}

ObjectsOf(m) == CHOOSE os \in ObjectLists : JsonDumps(os) = m.detected_object_names

\* The query is a substring of a search word, of a detected object name or
\* of the file name of the moment's video.
TextMatches(m, query) ==
    \/ \E i \in 1 .. Len(WordsOf(m)) : Substring(query, WordsOf(m)[i])
    \/ \E i \in 1 .. Len(ObjectsOf(m)) : Substring(query, ObjectsOf(m)[i])
    \/ Substring(query, m.original_filename)

\* C11: text query recall.  A text search whose result the limit did not cut
\* short returns every stored moment for which the query is a substring of a
\* search word, of a detected object name or of the video's file name; so a
\* moment that matches by an object name only is returned.
C11_TextRecall ==
    [][(Answers({"text_search"}) /\ resp'.status = 200
        /\ Len(resp'.results) < EffLimit(resp'.req)) =>
          \A m \in Joined(videos, moments) :
              TextMatches(m, resp'.req.query) => m \in Range(resp'.results)]_vars

\* C12: a temporal search without an end bound is refused.  Every temporal
\* search that is answered with a result list had an end bound in its
\* request: the search never runs as 'timestamp >= start' alone.
C12_EndRequired ==
    Listed({"temporal_search"}) => resp.req.has_end

\* How far the moment is from the timestamp the request asks for.
Distance(m, req) == Abs(m.timestamp_seconds - req.timestamp)

\* C13: segment query.  A segment search that is answered with a result list
\* had a video_id and a timestamp in its request; the list holds moments of
\* that video only, each within the tolerance of the timestamp (within 5
\* when the request has no tolerance), nearest first, and never more than
\* 10 of them, whatever limit the request carries.
C13_SegmentResult ==
    Listed({"video_segment_search"}) =>
        /\ resp.req.video_id # NoId
        /\ resp.req.has_timestamp
        /\ Len(resp.results) <= 10
        /\ \A i \in 1 .. Len(resp.results) :
              /\ resp.results[i].video_id = resp.req.video_id
              /\ Distance(resp.results[i], resp.req)
                    <= IF resp.req.has_tolerance THEN resp.req.tolerance ELSE 5
        /\ \A i, j \in 1 .. Len(resp.results) :
              i < j => Distance(resp.results[i], resp.req)
                          <= Distance(resp.results[j], resp.req)

\* A segment search at timestamp 0 that carried a limit above 10 returned 10
\* moments of the more than 10 within its tolerance.
C13_Witness ==
    /\ Listed({"video_segment_search"})
    /\ resp.req.timestamp = 0
    /\ resp.req.has_limit /\ resp.req.limit > 10
    /\ Len(resp.results) = 10
    /\ Range(resp.results) \subseteq Joined(videos, moments)
    /\ Cardinality(SegmentRows(videos, moments, resp.req)) > 10

\* The searches, the segment search among them.
QueryTypes == SearchTypes \cup {"video_segment_search"}

\* The response in hand is an error of one of the given types.
Failed(types) == resp.type \in types /\ resp.status \notin {0, 200}

\* The errors a request brings about by what it holds or lacks.
RequestErrors ==
    {"terms are required", "Query text is required", "Request data required",
     "video_id and timestamp are required", "AttributeError",
     "Internal server error"}

\* The errors of the store: no connection, or a statement that raises.
StoreFailures == {"Database connection failed", "psycopg2.Error"}

\* C14: validation precedes store access.  A search whose request lacks a
\* required field or holds a malformed value (an empty term list, a term
\* that is no string, a timestamp that is no number, no body) is answered
\* with a validation error, status 400, and no connection to the store was
\* opened for it.
C14_ValidationFirst ==
    (Failed(QueryTypes) /\ resp.error \in RequestErrors) =>
        resp.status = 400 /\ ~resp.opened

\* C15: a search that matches nothing succeeds.  In every successful search
\* response count is the number of results, 0 for the empty list; and a
\* search fails only by its request or by the store, never because no moment
\* matches.
C15_CountIsLength ==
    /\ Listed(QueryTypes) => resp.count = Len(resp.results)
    /\ Failed(QueryTypes) => resp.error \in RequestErrors \cup StoreFailures

\* A keyword search that no moment of a store with moments matches was
\* answered with the empty list and count 0.
C15_Witness ==
    /\ Listed({"keyword_search"})
    /\ moments # {}
    /\ TermRows(videos, moments, resp.type, resp.req.terms, resp.req.match_all)
          = {}
    /\ resp.results = <<>>
    /\ resp.count = 0

\* C16: no partial results.  A query that the store fails (no connection, or
\* a statement raises) is answered with status 500 and an error, and the
\* response has no list of results or moments, and no video.
C16_NoPartialResults ==
    (Failed(ReadTypes) /\ resp.error \in StoreFailures) =>
        /\ resp.status = 500
        /\ DOMAIN resp \cap {"results", "moments", "video", "count"} = {}

\* A statement of a search raised while the store held moments.
C16_Witness ==
    /\ Failed(SearchTypes)
    /\ resp.error = "psycopg2.Error"
    /\ resp.opened
    /\ moments # {}

\* C17: per-video lookup.  get_video_details answers not found, without
\* moments, only for an identifier that no stored video has; when it answers
\* with a video, that is the video asked for, the moments are exactly the
\* moments the store holds for it, each once, in ascending order of
\* timestamp_seconds, and moment_count is their number.
C17_VideoDetails ==
    [][Answers({"video_details"}) =>
         /\ resp'.status = 404 =>
               /\ \A w \in videos : w.video_id # resp'.req.video_id
               /\ "moments" \notin DOMAIN resp'
         /\ resp'.status = 200 =>
               /\ resp'.video.video_id = resp'.req.video_id
               /\ Range(resp'.moments)
                     = {m \in moments : m.video_id = resp'.req.video_id}
               /\ Len(resp'.moments) = Cardinality(Range(resp'.moments))
               /\ \A i, j \in 1 .. Len(resp'.moments) :
                     i < j => resp'.moments[i].timestamp_seconds
                                 <= resp'.moments[j].timestamp_seconds
               /\ resp'.moment_count = Len(resp'.moments)]_vars

\* The details of a video with two moments were returned while another
\* video had moments too.
C17_Witness ==
    /\ resp.type = "video_details" /\ resp.status = 200
    /\ Len(resp.moments) >= 2
    /\ \E m \in moments : m.video_id # resp.req.video_id

\* C18: a report without a video identifier is refused.  No import ever has
\* a transaction open (a statement pending, or the commit) for a report that
\* has no video_id: such a report fails validation first and the store is
\* left as it was.
C18_IdentifierRequired ==
    \A p \in Procs : pc[p] \in TxPcs => Report(p).video_id # NoId

\* The report names a processing date that cannot be parsed.
Unparsable(date_str) ==
    date_str # <<>> /\ FromIsoFormat(ReplaceZ(date_str)) = Null

\* C19: a date that cannot be parsed is not fatal.  When the import of a
\* report whose processing_date_utc cannot be parsed commits, the video is
\* stored with a null processing date, every keyframe of the report is stored
\* as a moment, and the import is reported as successful.
C19_BadDateIsNotFatal ==
    [][\A p \in Procs :
         (CommitStep(p) /\ Unparsable(Report(p).processing_date_utc)) =>
            /\ \E v \in videos' :
                 v.video_id = UpsertKey(p) /\ v.processing_date_utc = Null
            /\ ReportRows(p) \subseteq moments'
            /\ out'[p][Len(out'[p])].ok
            /\ cnt'[p].successful_imports = cnt[p].successful_imports + 1]_vars

\* The report with the date "n/a" and two keyframes was imported: its video
\* is stored without a processing date, with its two moments.
C19_Witness ==
    \E p \in Procs : \E i \in 1 .. Len(out[p]) :
        /\ out[p][i].ok
        /\ out[p][i].keyframes = 2
        /\ \E v \in videos :
             /\ v.video_id = video_folders[i]
             /\ v.duration_seconds = 10
             /\ v.processing_date_utc = Null
        /\ Cardinality(OwnedBy(moments, video_folders[i])) = 2

\* A video row without its creation time.
Mutable(v) == [v EXCEPT !.created_at = Null]

\* C20: video upsert.  When an import commits, the store holds exactly one
\* row with the identifier it upserted; every field of that row but the
\* creation time is what the report gives (its value, or the default for a
\* field it omits); if a row with the identifier was stored before, its
\* creation time is kept and no row is added; if none was, exactly one row is
\* added; and no row of another identifier changes.
C20_VideoUpsert ==
    [][\A p \in Procs :
         CommitStep(p) =>
            LET k == UpsertKey(p)
                old == {v \in videos : v.video_id = k}
                new == {v \in videos' : v.video_id = k}
            IN  /\ Cardinality(new) = 1
                /\ \A v \in new :
                     /\ Mutable(v) = Mutable(VideoRow(p))
                     /\ \A o \in old : v.created_at = o.created_at
                     /\ old = {} => v.created_at = <<p, idx[p]>>
                /\ Cardinality(videos') =
                     Cardinality(videos) + (IF old = {} THEN 1 ELSE 0)
                /\ videos' \ new = videos \ old]_vars

\* A row created by an import of the report with two keyframes now holds
\* what the report of the last commit says, another report's values.
C20_Witness ==
    \E v \in videos :
        /\ out[v.created_at[1]][v.created_at[2]].keyframes = 2
        /\ lastCommit.rep = 2
        /\ lastCommit.folder = v.video_id
        /\ v.fps = Reports[2].fps
        /\ v.analysis_status = Reports[2].analysis_status
        /\ v.processing_date_utc = <<2024, 5, 1, 10, 0, 0>>
        /\ v.scene_change_timestamps = <<"[", "1", ",", " ", "5", "]">>

\* The moments of the store a temporal request with an end bound asks for.
InRange(ms, req) ==
    {m \in ms :
       /\ (IF req.has_start THEN req.start_time ELSE 0) <= m.timestamp_seconds
       /\ m.timestamp_seconds <= req.end_time
       /\ req.video_id = NoId \/ m.video_id = req.video_id}

\* C23: temporal filter.  A temporal search with an end bound that is
\* answered with a result list returns moments of the store with
\* start <= timestamp_seconds <= end (start 0 when absent), of the video
\* asked for when one is, each once; it returns all of them, or as many as
\* the limit when there are more; and none when start > end.
C23_TemporalFilter ==
    [][(Answers({"temporal_search"}) /\ resp'.status = 200
        /\ resp'.req.has_end) =>
          LET req == resp'.req
              ids == {resp'.results[i].moment_id :
                        i \in 1 .. Len(resp'.results)}
              asked == InRange(moments, req)
          IN  /\ ids \subseteq MomentIds(asked)
              /\ Cardinality(ids) = Len(resp'.results)
              /\ Len(resp'.results) = Min(EffLimit(req), Cardinality(asked))
              /\ (req.has_start /\ req.start_time > req.end_time)
                    => resp'.results = <<>>]_vars

\* A temporal search with both bounds returned the moments at its end bound,
\* of two videos, and left out an earlier moment of the store.
C23_Witness ==
    /\ Listed({"temporal_search"})
    /\ resp.req.has_start /\ resp.req.has_end
    /\ Len(resp.results) >= 2
    /\ \A i \in 1 .. Len(resp.results) :
         resp.results[i].timestamp_seconds = resp.req.end_time
    /\ \E m \in moments : m.timestamp_seconds < resp.req.start_time

\* C24: the server variants agree.  In every state of the store, for every
\* query string and limit a text search accepts, the search_by_text of app.py
\* and that of appV.py may return the same lists of moments: the same
\* moments in the same order.
C24_VariantsAgree ==
    \A req \in TextRequests :
        (req.query # <<>> /\ EffLimit(req) >= 0) =>
            TextResults(videos, moments, req, FALSE)
              = TextResults(videos, moments, req, TRUE)

\* C30: list_videos pagination.  Unless the store fails, list_videos answers
\* a request for a page with a list of at most min(per_page, 200) videos,
\* with total_count the number of stored videos that pass the duration
\* filters, total_pages = ceil(total_count / per_page), and with each video
\* its number of moments.
C30_Pagination ==
    resp.type = "list_videos" =>
        \/ resp.status = 500 /\ resp.error \in StoreFailures
        \/ /\ resp.status = 200
           /\ Len(resp.videos) <= Min(resp.per_page, 200)
           /\ resp.total_count <= Cardinality(videos)
           /\ resp.total_pages
                = (resp.total_count + resp.per_page - 1) \div resp.per_page
           /\ \A i \in 1 .. Len(resp.videos) :
                resp.videos[i].moment_count
                  = Cardinality(OwnedBy(moments, resp.videos[i].video_id))

\* import_single_video of run p returns in this step.
ReturnStep(p) == Len(out'[p]) = Len(out[p]) + 1

\* C26: success if and only if committed.  When import_single_video returns,
\* it returns success exactly when this step commits its transaction, and
\* then the store is what the transaction's statements make of it; in every
\* other outcome it returns failure and the store is as it was before the
\* call's last step.  If the call opened a connection, it closed it once,
\* after one commit or one rollback, and not both; if it opened none, it
\* called neither.
C26_SuccessIffCommitted ==
    [][\A p \in Procs :
         ReturnStep(p) =>
            LET r == out'[p][Len(out'[p])]
                c == conn'[p]
            IN  /\ r.ok <=> CommitStep(p)
                /\ r.ok => /\ videos' = ApplyVideos(videos, tx[p])
                           /\ moments' = ApplyMoments(moments, tx[p])
                /\ ~r.ok => videos' = videos /\ moments' = moments
                /\ c.opens = 1 =>
                     c.closes = 1 /\ c.commits + c.rollbacks = 1
                /\ c.opens = 0 =>
                     c.closes = 0 /\ c.commits + c.rollbacks = 0
                /\ tx'[p] = EmptyTx]_vars

\* A call failed after it had inserted a moment and rolled back, another
\* could not open a connection or read its report, and a third committed.
C26_Witness ==
    /\ \E p \in Procs :
         /\ conn[p].rollbacks = 1 /\ conn[p].closes = 1
         /\ pc[p] \in {"loop", "done"}
         /\ out[p] # <<>> /\ out[p][Len(out[p])].partial
    /\ \E p \in Procs :
         /\ conn[p].opens = 0 /\ out[p] # <<>>
         /\ \E i \in 1 .. Len(out[p]) : out[p][i].ok
    /\ moments # {}

\* C27: connection release.  A handler of the query server that has answered
\* holds no connection: if it opened one it closed it, whether it answered
\* with results, with not found or with the error of an exception.
C27_ConnectionReleased ==
    resp.status # 0 => conn["server"].opens = conn["server"].closes

\* get_video_details opened a connection, found no video and closed it.
C27_Witness ==
    /\ resp.type = "video_details" /\ resp.status = 404
    /\ conn["server"] = [NoConn EXCEPT !.opens = 1, !.closes = 1]
    /\ videos # {}

\* ------------------------------------------------------------ test_insert
\* datetime.now(), to the second: the calls arrive within these seconds.
Seconds == {1, 2}

\* video_id = f"test_{datetime.now().strftime('%Y%m%d_%H%M%S')}": one
\* identifier per second, none of them a folder name.
TestVideoId(sec) == 100 + sec

\* INSERT INTO videos (video_id, original_filename, duration_seconds, fps,
\* analysis_status): the other columns take their defaults.
TestVideo(sec) ==
    [video_id |-> TestVideoId(sec),
     original_filename |->
        <<"t", "e", "s", "t", "_", "v", "i", "d", "e", "o", "_">>
          \o <<"t", "e", "s", "t", "_", Numerals[sec + 1]>>
          \o <<".", "m", "p", "4">>,
     compressed_filename |-> Null,
     duration_seconds |-> 120,
     fps |-> 25,
     compressed_file_size_bytes |-> NoNumber,
     processing_date_utc |-> Null,
     scene_change_timestamps |-> Null,
     keyframes_analyzed_count |-> 0,
     analysis_status |-> W_completed,
     error_message |-> Null,
     created_at |-> <<"test", sec>>]

\* moment_id = f"{video_id}_frame_001"; the timestamp 10.5 stands as 10.
TestMoment(sec) ==
    [moment_id |-> <<TestVideoId(sec), 1>>,
     video_id |-> TestVideoId(sec),
     timestamp_seconds |-> 10,
     detected_object_names |->
        JsonDumps(<< <<"p", "e", "r", "s", "o", "n">>, W_car >>),
     extracted_search_words |->
        JsonDumps(<< <<"t", "e", "s", "t">>,
                     <<"s", "a", "m", "p", "l", "e">>,
                     <<"v", "i", "d", "e", "o">> >>)]

\* (as if each statement were committed when it ran)
RolledBackWritesKept(t) == t

\* conn.rollback(): of the writes t of the transaction, these stay.
RolledBackWrites(t) == EmptyTx

\* jsonify({'success': True, 'video_id': ..., 'moment_id': ...})
TestInserted(sec) ==
    [type |-> "test_insert", status |-> 200, success |-> TRUE,
     video_id |-> TestVideoId(sec), moment_id |-> <<TestVideoId(sec), 1>>]

\* jsonify({'error': ...}), 500, and the identifier the call computed (the
\* text of a unique violation names it).
TestFailed(sec, error, opened) ==
    [type |-> "test_insert", status |-> 500, error |-> error,
     video_id |-> TestVideoId(sec), opened |-> opened]

\* What test_insert leaves: the response, the connection it used, the store.
TestOutcome(r, t, committed) ==
    /\ resp' = r
    /\ conn' = [conn EXCEPT !["server"] =
                  [ServerConn(r) EXCEPT
                     !.commits = IF committed THEN 1 ELSE 0,
                     !.rollbacks = IF Opened(r) /\ ~committed THEN 1 ELSE 0]]
    /\ videos' = ApplyVideos(videos, t)
    /\ moments' = ApplyMoments(moments, t)
    /\ UNCHANGED <<tx, pc, idx, rep, kf, snap, cnt, out, lastCommit, again,
                   conc, smp>>

\* POST /api/test/insert: two plain INSERT statements and conn.commit(); any
\* exception goes to conn.rollback() and a 500.
TestInsert ==
    /\ ~Pending
    /\ \E sec \in Seconds :
         LET v == TestVideo(sec)
             m == TestMoment(sec)
             t1 == [EmptyTx EXCEPT !.vrow = {v}]
             t2 == [t1 EXCEPT !.ins = {m}]
         IN  \/ TestOutcome(TestFailed(sec, "Database connection failed",
                                       FALSE),
                            EmptyTx, FALSE)
             \/ /\ ~VideoLocked("server", v.video_id)
                /\ IF \E w \in videos : w.video_id = v.video_id
                   THEN TestOutcome(TestFailed(sec, "UniqueViolation", TRUE),
                                    RolledBackWrites(EmptyTx), FALSE)
                   ELSE /\ ~MomentLocked("server", m.moment_id)
                        /\ IF m.moment_id \in MomentIds(moments)
                           THEN TestOutcome(TestFailed(sec, "UniqueViolation", TRUE),
                                            RolledBackWrites(t1), FALSE)
                           ELSE \/ TestOutcome(TestInserted(sec), t2, TRUE)
                                \/ \E t \in {EmptyTx, t1, t2} :
                                     TestOutcome(
                                       TestFailed(sec, "psycopg2.Error", TRUE),
                                       RolledBackWrites(t), FALSE)

\* ------------------------------------------------------ import_sample_data
\* A Python list of plain words or of numerals as psycopg2 passes it and the
\* column shows it: '{person,car}'.
ArrayLiteral(ws) ==
    <<"{">>
    \o Flatten([i \in 1 .. Len(ws) |->
                  IF i = 1 THEN ws[i] ELSE <<",">> \o ws[i]])
    \o <<"}">>

\* report_data['processing_date_utc'].replace('Z', '+00:00')
ReplaceEveryZ(s) ==
    Flatten([i \in 1 .. Len(s) |->
               IF s[i] = "Z" THEN <<"+", "0", "0", ":", "0", "0">>
               ELSE <<s[i]>>])

\* processing_date: None without the key or when the parse raises.
SampleProcessingDate(date_str) ==
    IF date_str = <<>> THEN Null ELSE FromIsoFormat(ReplaceEveryZ(date_str))

\* The feature files of the dataset that import_sample_data may read.
\* The first holds four keyframes, one with a moment_id that a report of
\* the importer carries too; the second is of another video and
\* holds a keyframe of the first video and one without moment_id; the third
\* names no original file.
FeatureReports ==
    << [video_id |-> 1, original_filename |-> <<"a", ".", "m", "p", "4">>,
        duration_seconds |-> 5, processing_date_utc |-> GoodDate,
        analyzed_keyframes |->
          << [moment_id |-> <<9, 1>>, video_id |-> 1, timestamp_seconds |-> 1,
              extracted_search_words |-> <<W_cat>>,
              detected_object_names |-> <<<<"p", "e", "r", "s", "o", "n">>, W_car>>],
             [moment_id |-> <<8, 2>>, video_id |-> 1, timestamp_seconds |-> 2,
              extracted_search_words |-> <<>>,
              detected_object_names |-> <<>>],
             [moment_id |-> <<8, 3>>, video_id |-> 1, timestamp_seconds |-> 3,
              extracted_search_words |-> <<>>,
              detected_object_names |-> <<>>],
             [moment_id |-> <<8, 4>>, video_id |-> 1, timestamp_seconds |-> 4,
              extracted_search_words |-> <<>>,
              detected_object_names |-> <<>>] >>] @@ Unreported,
       [video_id |-> 2, original_filename |-> <<"b", ".", "m", "p", "4">>,
        duration_seconds |-> 6,
        analyzed_keyframes |->
          << [moment_id |-> <<8, 5>>, video_id |-> 1, timestamp_seconds |-> 5,
              extracted_search_words |-> <<W_dog>>,
              detected_object_names |-> <<>>],
             [moment_id |-> <<>>, video_id |-> 2, timestamp_seconds |-> 6,
              extracted_search_words |-> <<>>,
              detected_object_names |-> <<>>] >>] @@ Unreported,
       [video_id |-> 2, original_filename |-> <<>>, duration_seconds |-> 7,
        analyzed_keyframes |-> <<>>] @@ Unreported >>

\* if len(sample_reports) >= 2: break
SampleLimit == Min(2, Len(FeatureReports))

\* dataset_path.iterdir() yields the directories in an order of its own: the
\* report files the loop may collect.
SampleChoices ==
    {d \in [1 .. SampleLimit -> 1 .. Len(FeatureReports)] :
       \A i, j \in 1 .. SampleLimit : i # j => d[i] # d[j]}

\* The row video_sql writes (INSERT ... ON CONFLICT (video_id) DO NOTHING).
SampleVideoRow(r) ==
    [video_id |-> r.video_id,
     original_filename |-> r.original_filename,
     compressed_filename |-> r.compressed_filename,
     duration_seconds |-> r.duration_seconds,
     fps |-> Get(r.fps, NoNumber, 0),
     compressed_file_size_bytes |-> Get(r.compressed_file_size_bytes, NoNumber, 0),
     processing_date_utc |-> SampleProcessingDate(r.processing_date_utc),
     scene_change_timestamps |->
        ArrayLiteral([i \in 1 .. Len(r.scene_change_timestamps) |->
                        <<Numerals[r.scene_change_timestamps[i] + 1]>>]),
     keyframes_analyzed_count |-> Get(r.keyframes_analyzed_count, NoNumber, 0),
     analysis_status |-> Get(r.analysis_status, <<>>, <<"u", "n", "k", "n", "o", "w", "n">>),
     error_message |-> r.error_message,
     created_at |-> <<"sample", 1>>]

\* The row moment_sql writes (INSERT ... ON CONFLICT (moment_id) DO NOTHING).
SampleMomentRow(k) ==
    [moment_id |-> k.moment_id,
     video_id |-> k.video_id,
     timestamp_seconds |-> k.timestamp_seconds,
     detected_object_names |-> ArrayLiteral(k.detected_object_names),
     extracted_search_words |-> ArrayLiteral(k.extracted_search_words)]

\* analyzed_keyframes[:3]
SampleKeyframes(r) ==
    SubSeq(r.analyzed_keyframes, 1, Min(3, Len(r.analyzed_keyframes)))

SampleReport == FeatureReports[smp.dirs[smp.i]]

SampleFrame ==
    UNCHANGED <<pc, idx, rep, kf, snap, cnt, out, lastCommit, again, conc,
                resp>>

\* except Exception: continue, and the end of a report's keyframes: the loop
\* goes to the next report file, or past the last to conn.commit().
NextReport(aborted) ==
    smp' = [smp EXCEPT !.pc = IF smp.i = Len(smp.dirs) THEN "commit"
                                ELSE "report",
                       !.i = smp.i + 1, !.k = 0, !.aborted = aborted]

\* The run starts: it collects the report files and connects; without
\* settings, dataset, report or connection it returns False.
SampleBegin ==
    /\ smp.pc = "idle" /\ smp.runs = 0
    /\ \/ /\ \E d \in SampleChoices :
               smp' = [smp EXCEPT !.pc = "report", !.dirs = d, !.i = 1,
                                  !.runs = 1]
          /\ conn' = [conn EXCEPT !["sample"] = Connected]
       \/ /\ smp' = [smp EXCEPT !.runs = 1]
          /\ UNCHANGED conn
    /\ UNCHANGED <<videos, moments, tx>>
    /\ SampleFrame

\* json.load and the video INSERT of the report in hand.
SampleVideo ==
    /\ smp.pc = "report"
    /\ LET r == SampleReport
       IN  \/ \* the file does not load: json.load raises
              /\ NextReport(smp.aborted)
              /\ UNCHANGED tx
           \/ IF smp.aborted
              THEN \* the transaction is aborted: the statement raises
                   /\ NextReport(TRUE)
                   /\ UNCHANGED tx
              ELSE IF r.original_filename = <<>>
              THEN \* original_filename is NOT NULL: the statement raises
                   /\ NextReport(TRUE)
                   /\ UNCHANGED tx
              ELSE /\ ~VideoLocked("sample", r.video_id)
                   /\ tx' = [tx EXCEPT !["sample"].vrow =
                               IF DuplicateVideo("sample", r.video_id) THEN @
                               ELSE @ \cup {SampleVideoRow(r)}]
                   /\ smp' = [smp EXCEPT !.pc = "moment", !.k = 0]
    /\ UNCHANGED <<videos, moments, conn>>
    /\ SampleFrame

\* One turn of the loop over the first keyframes of the report in hand.
SampleMoment ==
    /\ smp.pc = "moment"
    /\ LET ks == SampleKeyframes(SampleReport)
       IN  IF smp.k >= Len(ks)
           THEN NextReport(smp.aborted) /\ UNCHANGED tx
           ELSE LET k == ks[smp.k + 1]
                IN  IF k.moment_id = <<>> \/ k.video_id = NoId
                    THEN \* moment_data['moment_id'] raises KeyError
                         NextReport(smp.aborted) /\ UNCHANGED tx
                    ELSE /\ ~MomentLocked("sample", k.moment_id)
                         /\ IF DuplicateMoment("sample", k.moment_id)
                            THEN /\ smp' = [smp EXCEPT !.k = smp.k + 1]
                                 /\ UNCHANGED tx
                            ELSE IF ~VideoVisible("sample", k.video_id)
                            THEN \* the foreign key is violated
                                 NextReport(TRUE) /\ UNCHANGED tx
                            ELSE /\ smp' = [smp EXCEPT !.k = smp.k + 1]
                                 /\ tx' = [tx EXCEPT !["sample"].ins =
                                             @ \cup {SampleMomentRow(k)}]
    /\ UNCHANGED <<videos, moments, conn>>
    /\ SampleFrame

\* conn.commit() after the loop: of an aborted transaction nothing stays.
\* The function closes the connection and returns True; if commit raises it
\* returns False and closes nothing.
SampleCommit ==
    /\ smp.pc = "commit"
    /\ \/ /\ videos' = ApplyVideos(videos,
                         IF smp.aborted THEN EmptyTx ELSE tx["sample"])
          /\ moments' = ApplyMoments(moments,
                          IF smp.aborted THEN EmptyTx ELSE tx["sample"])
          /\ conn' = [conn EXCEPT !["sample"].commits = 1,
                                  !["sample"].closes = 1]
       \/ UNCHANGED <<videos, moments, conn>>
    /\ tx' = [tx EXCEPT !["sample"] = EmptyTx]
    /\ smp' = [smp EXCEPT !.pc = "idle"]
    /\ SampleFrame

SampleStep == SampleBegin \/ SampleVideo \/ SampleMoment \/ SampleCommit

\* The first two folders hold the report whose keyframe names its moment_id;
\* the reports of the other folders cannot be read.
StoreBatch == [f \in Folders |-> IF f <= 2 THEN {2} ELSE {}]

\* The importer, test inserts and the sample import against one store.
StoreNext == ImportStep("p1", StoreBatch) \/ TestInsert \/ SampleStep

StoreSpec == Init /\ [][StoreNext]_vars

\* C25: referential integrity.  In every committed state of the store that
\* ingestions, test inserts and sample imports reach, the video_id of every
\* moment is the video_id of a stored video, no two moments share a
\* moment_id and no two videos share a video_id.
C25_ReferentialIntegrity ==
    /\ \A m \in moments : \E v \in videos : v.video_id = m.video_id
    /\ \A m, n \in moments : m.moment_id = n.moment_id => m = n
    /\ \A v, w \in videos : v.video_id = w.video_id => v = w

\* The store holds moments the importer wrote, the moment of a test insert
\* and moments of the sample import, one of them under a video the sample
\* import did not write.
C25_Witness ==
    /\ \E m \in moments : m.moment_id = <<9, 1>> /\ m.video_id = 1
    /\ \E m \in moments : m.video_id \in {TestVideoId(sec) : sec \in Seconds}
    /\ \E m \in moments : m.moment_id = <<8, 5>>
    /\ \E v \in videos : v.video_id = 1 /\ v.created_at[1] # "sample"
    /\ \E v \in videos : v.created_at[1] = "sample"

\* A call of test_insert returns in this step.
TestInsertStep ==
    /\ resp'.type = "test_insert"
    /\ UNCHANGED <<tx, pc, idx, kf, smp>>
    /\ <<resp, videos, moments, conn>>' # <<resp, videos, moments, conn>>

\* C28: test_insert is all-or-nothing.  A call either answers 200, has
\* committed once and added exactly one video that was not stored and
\* exactly one moment owned by it, or answers 500 with an error and leaves
\* the store as it was, having rolled back if it had a connection and never
\* committed.  A call whose video identifier is stored already (a call of the
\* same second) is of the second kind, so the stored rows stay as they are.
\* Either way the connection is closed.
C28_TestInsertAllOrNothing ==
    [][TestInsertStep =>
         LET r == resp'
             c == conn'["server"]
         IN  /\ \/ /\ r.status = 200 /\ r.success
                   /\ c.commits = 1 /\ c.rollbacks = 0
                   /\ \E v \in videos' : \E m \in moments' :
                        /\ v.video_id = r.video_id
                        /\ \A w \in videos : w.video_id # v.video_id
                        /\ videos' = videos \cup {v}
                        /\ m.moment_id = r.moment_id
                        /\ m.moment_id \notin MomentIds(moments)
                        /\ moments' = moments \cup {m}
                        /\ m.video_id = v.video_id
                \/ /\ r.status = 500 /\ r.error # ""
                   /\ videos' = videos /\ moments' = moments
                   /\ c.commits = 0
                   /\ c.rollbacks = IF c.opens = 1 THEN 1 ELSE 0
             /\ (\E w \in videos : w.video_id = r.video_id) => r.status = 500
             /\ c.opens = c.closes]_vars

\* A call of a second whose rows are stored was refused with a unique
\* violation and rolled back; the rows of the first call are in the store,
\* beside rows of the importer.
C28_Witness ==
    /\ resp.type = "test_insert" /\ resp.status = 500
    /\ resp.error = "UniqueViolation"
    /\ conn["server"].rollbacks = 1
    /\ \E v \in videos :
         /\ v.video_id = resp.video_id
         /\ Cardinality(OwnedBy(moments, v.video_id)) = 1
    /\ \E v \in videos : v.video_id \in Folders

\* The rows of ms that are not in ns and belong to video id.
AddedTo(id, ms, ns) == {m \in ms \ ns : m.video_id = id}

====
